---- MODULE Spec2Model ----
(***************************************************************************)
(* A model of eBreached (ebreached.py): the lookup client                  *)
(* check_email_pwned, the batch driver check_emails_from_file, the report  *)
(* writer save_to_csv and the main block that wires them together.         *)
(*                                                                         *)
(* Python values are modelled as records tagged with their type:           *)
(*   None  -> [type |-> "NoneType"]                                        *)
(*   list  -> [type |-> "list", items |-> <<...>>]                         *)
(*   dict  -> [type |-> "dict", d |-> a function from its keys]            *)
(* A dict kept in insertion order (email_results) is a sequence of         *)
(* [k |-> key, v |-> value] entries with pairwise distinct keys.           *)
(***************************************************************************)
EXTENDS Integers, Sequences, FiniteSets, TLC

VARIABLES
    pc,             \* position of the main program
    mode,           \* which command line was given: "help", "single", "batch"
    single_email,   \* args.single_email (mode "single")
    input,          \* the file named by -l: [kind, row]
    emails,         \* the first row read from the input file
    email_results,  \* the results mapping, in insertion order
    idx,            \* position of the batch loop in email_results
    response,       \* the last HTTP response seen by check_email_pwned
    breaches,       \* the value the last batch lookup returned
    console,        \* the last line printed
    calls,          \* history: one [email, ret] per lookup issued
    sleeps,         \* history: number of time.sleep(1) calls
    file            \* the report file: [exists, opens, content]

vars == <<pc, mode, single_email, input, emails, email_results, idx,
          response, breaches, console, calls, sleeps, file>>

(***************************************************************************)
(* Bounds                                                                  *)
(***************************************************************************)
MaxEmails == 3      \* longest first row of the input file
MaxRecords == 2     \* longest "result" list of a response body

Emails == {"a@x.com", "b@y.com", "c@z.com"}

(***************************************************************************)
(* Python values                                                           *)
(***************************************************************************)
None == [type |-> "NoneType"]

EmptyList == [type |-> "list", items |-> <<>>]

Dict(d) == [type |-> "dict", d |-> d]

\* bool(v) for the values that occur
Truthy(v) ==
    CASE v.type = "NoneType" -> FALSE
      [] v.type = "list" -> v.items # <<>>
      [] v.type = "dict" -> DOMAIN v.d # {}

\* d.get(key, default)
Get(d, key, default) == IF key \in DOMAIN d THEN d[key] ELSE default

\* sequences over S of length at most n
SeqUpTo(S, n) == UNION {[1..k -> S] : k \in 0..n}

(***************************************************************************)
(* What the remote service can answer                                      *)
(***************************************************************************)
BreachRecords ==
    { [password |-> "p1", sha1 |-> "s1", hash |-> "h1",
       sources |-> <<"siteA", "siteB">>],
      [hash |-> "h2"] }

Payloads ==
    {Dict(<<>>), Dict([success |-> FALSE])}
        \cup {Dict([result |-> rs]) : rs \in SeqUpTo(BreachRecords, MaxRecords)}

ErrorBody == Dict([message |-> "error"])

StatusCodes == {200, 404, 500, 403}

\* requests.get either raises (transport failure) or returns a response
Responses ==
    {[raised |-> TRUE, status |-> 0, body |-> None]}
        \cup {[raised |-> FALSE, status |-> 200, body |-> p] : p \in Payloads}
        \cup {[raised |-> FALSE, status |-> c, body |-> ErrorBody] :
                 c \in StatusCodes \ {200}}

NoResponse == [raised |-> FALSE, status |-> 0, body |-> None]

\* variant: a 500 response is treated like a 200 and its body is returned
check_email_pwned_500AsFound(email, resp) ==
    IF resp.status \in {200, 500}
    THEN [ret |-> resp.body,
          msg |-> "Checking breaches for " \o email \o "... Please wait."]
    ELSE [ret |-> None,
          msg |-> "There was an error (" \o ToString(resp.status)
                     \o ") connecting to BreachDirectory"]

(***************************************************************************)
(* check_email_pwned: the value returned and the last line printed, for a  *)
(* response that requests.get returned                                     *)
(***************************************************************************)
check_email_pwned(email, resp) ==
    CASE resp.status = 200 ->
            [ret |-> resp.body,
             msg |-> "Checking breaches for " \o email \o "... Please wait."]
      [] resp.status = 404 ->
            [ret |-> None,
             msg |-> "Error 404 when connecting to BreachDirectory!"]
      [] resp.status = 500 ->
            [ret |-> None,
             msg |-> "Error 500: Either no records found or Internal Server Error."]
      [] OTHER ->
            [ret |-> None,
             msg |-> "There was an error (" \o ToString(resp.status)
                        \o ") connecting to BreachDirectory"]

(***************************************************************************)
(* save_to_csv                                                             *)
(***************************************************************************)
fieldnames == <<"Email", "Password", "Sha1", "Hash", "Sources">>

\* ", ".join(sources) if sources else ""
RECURSIVE Join(_)
Join(sources) ==
    IF sources = <<>> THEN ""
    ELSE IF Len(sources) = 1 THEN sources[1]
    ELSE sources[1] \o ", " \o Join(Tail(sources))

\* the row written for one record of one email
Row(email, result) ==
    <<email,
      Get(result, "password", ""),
      Get(result, "sha1", ""),
      Get(result, "hash", ""),
      Join(Get(result, "sources", <<>>))>>

\* variant: an email with no records still gets a row, with empty fields
RowsOf_blankWhenEmpty(email, results) ==
    IF results = <<>> THEN << <<email, "", "", "", "">> >>
    ELSE [j \in 1..Len(results) |-> Row(email, results[j])]

\* the inner loop: one row per record, in order
RowsOf(email, results) == [j \in 1..Len(results) |-> Row(email, results[j])]

\* the outer loop over email_results.items(): email_data.get raises for a
\* value that is not a dict, and the rows written so far stay in the file
RECURSIVE WriteEntries(_, _)
WriteEntries(entries, content) ==
    IF entries = <<>> THEN [content |-> content, raised |-> FALSE]
    ELSE LET e == Head(entries) IN
         IF e.v.type # "dict" THEN [content |-> content, raised |-> TRUE]
         ELSE WriteEntries(Tail(entries),
                           content \o RowsOf(e.k, Get(e.v.d, "result", <<>>)))

\* variant: the rows are buffered and nothing reaches the file on an abort
save_to_csv_discardOnAbort(results) ==
    LET w == WriteEntries(results, <<fieldnames>>) IN
    IF w.raised THEN [content |-> <<>>, raised |-> TRUE] ELSE w

\* open(mode="w"), writeheader, then the loops; the with block closes the
\* file on both exits
save_to_csv(results) == WriteEntries(results, <<fieldnames>>)

(***************************************************************************)
(* check_emails_from_file helpers                                          *)
(***************************************************************************)
\* variant: a list of pairs instead of a dict, one entry per cell
RECURSIVE DictComprehension_noDedup(_, _)
DictComprehension_noDedup(row, acc) ==
    IF row = <<>> THEN acc
    ELSE DictComprehension_noDedup(Tail(row),
                                   Append(acc, [k |-> Head(row), v |-> EmptyList]))

\* {email: [] for email in emails}: one entry per distinct email, at the
\* position of its first occurrence
RECURSIVE DictComprehension(_, _)
DictComprehension(row, acc) ==
    IF row = <<>> THEN acc
    ELSE IF \E i \in 1..Len(acc) : acc[i].k = Head(row)
         THEN DictComprehension(Tail(row), acc)
         ELSE DictComprehension(Tail(row),
                                Append(acc, [k |-> Head(row), v |-> EmptyList]))

\* variant: the loop stops one key early
LoopDone_offByOne(i, results) == i >= Len(results)

\* the for loop over email_results is exhausted
LoopDone(i, results) == i > Len(results)

Inputs ==
    {[kind |-> "missing", row |-> <<>>], [kind |-> "empty", row |-> <<>>]}
        \cup {[kind |-> "row", row |-> r] : r \in SeqUpTo(Emails, MaxEmails)}

NoInput == [kind |-> "none", row |-> <<>>]

NoEmail == ""

(***************************************************************************)
(* Initial state: the command line has been parsed                         *)
(***************************************************************************)
Init ==
    /\ pc = "main"
    /\ mode \in {"help", "single", "batch"}
    /\ single_email \in (IF mode = "single" THEN Emails ELSE {NoEmail})
    /\ input \in (IF mode = "batch" THEN Inputs ELSE {NoInput})
    /\ emails = <<>>
    /\ email_results = <<>>
    /\ idx = 0
    /\ response = NoResponse
    /\ breaches = None
    /\ console = "= eBreached v.0.1.0 ="
    /\ calls = <<>>
    /\ sleeps = 0
    /\ file = [exists |-> FALSE, opens |-> 0, content |-> <<>>]

(***************************************************************************)
(* Actions                                                                 *)
(***************************************************************************)
\* not enough parameters: print_help and nothing else
PrintHelp ==
    /\ pc = "main"
    /\ mode = "help"
    /\ pc' = "done"
    /\ console' = "python ebreached.py -h : Display this help message."
    /\ UNCHANGED <<mode, single_email, input, emails, email_results, idx,
                   response, breaches, calls, sleeps, file>>

\* email_results = {args.single_email: check_email_pwned(...)}; an exception
\* of requests.get is not caught anywhere on this path
SingleLookup ==
    /\ pc = "main"
    /\ mode = "single"
    /\ \E resp \in Responses :
        /\ response' = resp
        /\ IF resp.raised
           THEN /\ pc' = "crash"
                /\ calls' = Append(calls, [email |-> single_email, ret |-> None])
                /\ console' = "Traceback (most recent call last):"
                /\ UNCHANGED email_results
           ELSE LET r == check_email_pwned(single_email, resp) IN
                /\ pc' = "report"
                /\ calls' = Append(calls, [email |-> single_email, ret |-> r.ret])
                /\ console' = r.msg
                /\ email_results' = <<[k |-> single_email, v |-> r.ret]>>
    /\ UNCHANGED <<mode, single_email, input, emails, idx, breaches, sleeps, file>>

\* open the input file, read its first row and build the mapping; open() or
\* next(reader) raising lands in the bare except
ReadInput ==
    /\ pc = "main"
    /\ mode = "batch"
    /\ IF input.kind = "row"
       THEN /\ emails' = input.row
            /\ email_results' = DictComprehension(input.row, <<>>)
            /\ idx' = 1
            /\ pc' = "loop"
            /\ UNCHANGED console
       ELSE /\ pc' = "exit_batch"
            /\ console' = "Error opening file. Quitting!"
            /\ UNCHANGED <<emails, email_results, idx>>
    /\ UNCHANGED <<mode, single_email, input, response, breaches, calls,
                   sleeps, file>>

\* breaches = check_email_pwned(email, api_key) for the next key; an
\* exception of requests.get lands in the bare except of the driver
LoopLookup ==
    /\ pc = "loop"
    /\ ~LoopDone(idx, email_results)
    /\ \E resp \in Responses :
        LET email == email_results[idx].k IN
        /\ response' = resp
        /\ IF resp.raised
           THEN /\ pc' = "exit_batch"
                /\ calls' = Append(calls, [email |-> email, ret |-> None])
                /\ console' = "Error opening file. Quitting!"
                /\ UNCHANGED breaches
           ELSE LET r == check_email_pwned(email, resp) IN
                /\ pc' = "store"
                /\ calls' = Append(calls, [email |-> email, ret |-> r.ret])
                /\ console' = r.msg
                /\ breaches' = r.ret
    /\ UNCHANGED <<mode, single_email, input, emails, email_results, idx,
                   sleeps, file>>

\* if breaches: email_results[email] = breaches
Store ==
    /\ pc = "store"
    /\ email_results' =
          IF Truthy(breaches)
          THEN [email_results EXCEPT ![idx].v = breaches]
          ELSE email_results
    /\ pc' = "sleep"
    /\ UNCHANGED <<mode, single_email, input, emails, idx, response, breaches,
                   console, calls, sleeps, file>>

\* variant: the delay is taken only after a lookup that found something
Sleep_onlyOnHit ==
    /\ pc = "sleep"
    /\ sleeps' = IF Truthy(breaches) THEN sleeps + 1 ELSE sleeps
    /\ idx' = idx + 1
    /\ pc' = "loop"
    /\ UNCHANGED <<mode, single_email, input, emails, email_results, response,
                   breaches, console, calls, file>>

\* time.sleep(1), then the loop moves to the next key
Sleep ==
    /\ pc = "sleep"
    /\ sleeps' = sleeps + 1
    /\ idx' = idx + 1
    /\ pc' = "loop"
    /\ UNCHANGED <<mode, single_email, input, emails, email_results, response,
                   breaches, console, calls, file>>

\* return email_results
Return ==
    /\ pc = "loop"
    /\ LoopDone(idx, email_results)
    /\ pc' = "report"
    /\ UNCHANGED <<mode, single_email, input, emails, email_results, idx,
                   response, breaches, console, calls, sleeps, file>>

\* variant: the report is written without testing email_results first
Report_noGuard ==
    /\ pc = "report"
    /\ LET w == save_to_csv(email_results) IN
       /\ file' = [exists |-> TRUE, opens |-> file.opens + 1,
                   content |-> w.content]
       /\ IF w.raised
          THEN /\ pc' = "exit_save"
               /\ console' = "Nothing to report. Quitting!"
          ELSE /\ pc' = "done"
               /\ console' = "Only emails with detected breaches are listed in the file."
    /\ UNCHANGED <<mode, single_email, input, emails, email_results, idx,
                   response, breaches, calls, sleeps>>

\* if email_results: save_to_csv(output_filename, email_results)
Report ==
    /\ pc = "report"
    /\ IF email_results # <<>>
       THEN LET w == save_to_csv(email_results) IN
            /\ file' = [exists |-> TRUE, opens |-> file.opens + 1,
                        content |-> w.content]
            /\ IF w.raised
               THEN /\ pc' = "exit_save"
                    /\ console' = "Nothing to report. Quitting!"
               ELSE /\ pc' = "done"
                    /\ console' = "Only emails with detected breaches are listed in the file."
       ELSE /\ pc' = "done"
            /\ UNCHANGED <<file, console>>
    /\ UNCHANGED <<mode, single_email, input, emails, email_results, idx,
                   response, breaches, calls, sleeps>>

Next ==
    \/ PrintHelp
    \/ SingleLookup
    \/ ReadInput
    \/ LoopLookup
    \/ Store
    \/ Sleep
    \/ Return
    \/ Report

Spec == Init /\ [][Next]_vars

TypeOK ==
    /\ pc \in {"main", "loop", "store", "sleep", "report", "done",
               "exit_batch", "exit_save", "crash"}
    /\ sleeps \in 0..MaxEmails
    /\ Len(calls) <= MaxEmails
    /\ file.opens \in 0..1

(***************************************************************************)
(* Vocabulary of the properties                                            *)
(***************************************************************************)
\* the value is a Found outcome with a non-empty result list
HasRecords(v) ==
    /\ v.type = "dict"
    /\ "result" \in DOMAIN v.d
    /\ v.d["result"] # <<>>

\* the rows of the report below the header
DataRows == IF file.content = <<>> THEN <<>> ELSE Tail(file.content)

\* the data rows of the report whose Email column is e, in file order
RowsFor(e) == SelectSeq(DataRows, LAMBDA r : r[1] = e)

\* the rows the report should hold for email e with records rs
ExpectedRows(e, rs) ==
    [j \in 1..Len(rs) |->
        <<e,
          IF "password" \in DOMAIN rs[j] THEN rs[j]["password"] ELSE "",
          IF "sha1" \in DOMAIN rs[j] THEN rs[j]["sha1"] ELSE "",
          IF "hash" \in DOMAIN rs[j] THEN rs[j]["hash"] ELSE "",
          Join(IF "sources" \in DOMAIN rs[j] THEN rs[j]["sources"] ELSE <<>>)>>]

\* save_to_csv has run
ReportWritten == pc \in {"done", "exit_save"} /\ file.exists

\* the emails looked up, in the order of the lookups
CallEmails == [i \in 1..Len(calls) |-> calls[i].email]

KeySet == {email_results[i].k : i \in 1..Len(email_results)}

\* the cells of s without the repetitions of an earlier cell
RECURSIVE FirstOccurrencesFrom(_, _)
FirstOccurrencesFrom(s, i) ==
    IF i > Len(s) THEN <<>>
    ELSE (IF \E j \in 1..(i - 1) : s[j] = s[i] THEN <<>> ELSE <<s[i]>>)
            \o FirstOccurrencesFrom(s, i + 1)

FirstOccurrences(s) == FirstOccurrencesFrom(s, 1)

\* the expected rows of the first n entries of the mapping, concatenated
RECURSIVE RowsOfPrefix(_)
RowsOfPrefix(n) ==
    IF n = 0 THEN <<>>
    ELSE RowsOfPrefix(n - 1)
            \o (IF HasRecords(email_results[n].v)
                THEN ExpectedRows(email_results[n].k, email_results[n].v.d["result"])
                ELSE <<>>)

(***************************************************************************)
(* C1: once the report has been written, every email of the mapping whose  *)
(* outcome is Found with a non-empty result list has exactly one row per   *)
(* record, in record order, with the fields copied and the sources joined, *)
(* wherever it sits in the mapping.  The code does not do this: the        *)
(* writer stops at the first entry that is not a dict.                     *)
(***************************************************************************)
C1_EveryFoundEmailHasItsRows ==
    ReportWritten =>
        \A i \in 1..Len(email_results) :
            HasRecords(email_results[i].v) =>
                RowsFor(email_results[i].k)
                    = ExpectedRows(email_results[i].k, email_results[i].v.d["result"])

(***************************************************************************)
(* C2 as stated: when the batch driver returns, the lookups issued are the *)
(* cells of the row, one per cell, in order (a repeated email is looked up *)
(* again).                                                                 *)
(***************************************************************************)
C2_OneLookupPerCell ==
    (pc = "report" /\ mode = "batch") => CallEmails = emails

(***************************************************************************)
(* C2 amended: when the batch driver returns, the lookups issued are the   *)
(* distinct emails of the row, once each, in order of first appearance,    *)
(* and the mapping holds for each the value its single lookup returned, or *)
(* the empty-list placeholder when that value is falsy.                    *)
(***************************************************************************)
C2_OneLookupPerDistinctEmail ==
    (pc = "report" /\ mode = "batch") =>
        /\ CallEmails = FirstOccurrences(emails)
        /\ Len(email_results) = Len(calls)
        /\ \A i \in 1..Len(calls) :
              /\ email_results[i].k = calls[i].email
              /\ email_results[i].v =
                    IF Truthy(calls[i].ret) THEN calls[i].ret ELSE EmptyList

C2_Witness ==
    /\ pc = "report"
    /\ mode = "batch"
    /\ Len(emails) > Len(calls)
    /\ Len(calls) >= 2
    /\ \E i \in 1..Len(calls) : HasRecords(email_results[i].v)

C4_ErrorDistinctFromNotFound ==
    (calls # <<>> /\ ~response.raised /\ response.status \notin {200, 404, 500}) =>
        calls[Len(calls)].ret
            # check_email_pwned(calls[Len(calls)].email,
                                [raised |-> FALSE, status |-> 404,
                                 body |-> ErrorBody]).ret

(***************************************************************************)
(* C4 amended: the lookup returns the parsed body exactly when the status  *)
(* is 200; for every other status (404, 500 or any other code) it returns  *)
(* the same value None, which carries no code.                             *)
(***************************************************************************)
C4_BodyIffStatus200 ==
    (calls # <<>> /\ ~response.raised) =>
        /\ (response.status = 200 <=> calls[Len(calls)].ret = response.body)
        /\ (response.status # 200 => calls[Len(calls)].ret = None)

C4_Witness ==
    /\ pc = "store"
    /\ response.status = 403
    /\ breaches = None
    /\ \E i \in 1..Len(calls) : calls[i].ret.type = "dict"

(***************************************************************************)
(* C5: in batch mode with a readable first row, a failed lookup (a non-200 *)
(* status or a transport failure) does not stop the batch: the driver is   *)
(* never left through its exit.  The code does stop: an exception of the   *)
(* HTTP call lands in the handler meant for the input file.                *)
(***************************************************************************)
C5_FailedLookupDoesNotStopBatch ==
    (mode = "batch" /\ input.kind = "row") => pc # "exit_batch"

(***************************************************************************)
(* C6: in batch mode a lookup is issued only when every earlier lookup has *)
(* been followed by its sleep, and the sleep after a lookup is taken       *)
(* whatever that lookup returned.                                          *)
(***************************************************************************)
C6_SleepBetweenLookups ==
    [][ /\ (mode = "batch" /\ Len(calls') = Len(calls) + 1) => sleeps = Len(calls)
        /\ (pc = "store" => pc' = "sleep")
        /\ (pc = "sleep" => sleeps' = sleeps + 1) ]_vars

C6_Witness ==
    /\ pc = "store"
    /\ Len(calls) = 2
    /\ sleeps = 1
    /\ ~Truthy(calls[1].ret)

(***************************************************************************)
(* C7: when the batch driver returns for a row of n >= 1 emails it has     *)
(* slept exactly n - 1 times.  The code sleeps after the last lookup too.  *)
(***************************************************************************)
C7_SleepsOneLessThanEmails ==
    (pc = "report" /\ mode = "batch" /\ Len(emails) >= 1) =>
        sleeps = Len(emails) - 1

(***************************************************************************)
(* C8: every data row of the report belongs to an email of the mapping     *)
(* whose outcome is Found with a non-empty result list; an email whose     *)
(* value is the placeholder, None, or a body with an empty or absent       *)
(* result list has no row.                                                 *)
(***************************************************************************)
C8_RowsOnlyForFoundEmails ==
    file.exists =>
        /\ \A j \in 1..Len(DataRows) :
              \E i \in 1..Len(email_results) :
                  /\ email_results[i].k = DataRows[j][1]
                  /\ HasRecords(email_results[i].v)
        /\ \A i \in 1..Len(email_results) :
              ~HasRecords(email_results[i].v) => RowsFor(email_results[i].k) = <<>>

C8_Witness ==
    /\ file.exists
    /\ Len(DataRows) >= 1
    /\ \E i \in 1..Len(email_results) :
          /\ email_results[i].v.type = "dict"
          /\ ~HasRecords(email_results[i].v)
    /\ \E i \in 1..Len(email_results) : email_results[i].v = EmptyList

(***************************************************************************)
(* C9: when the batch driver has returned the mapping, or the single-email *)
(* path has built it, its keys are exactly the emails looked up.           *)
(***************************************************************************)
C9_KeysAreLookedUpEmails ==
    pc = "report" => KeySet = {calls[i].email : i \in 1..Len(calls)}

C9_Witness ==
    /\ pc = "report"
    /\ mode = "batch"
    /\ Len(email_results) >= 2
    /\ \E i \in 1..Len(email_results) : email_results[i].v = EmptyList
    /\ \E i \in 1..Len(email_results) : HasRecords(email_results[i].v)

(***************************************************************************)
(* C10: the report file is opened at most once and only when no lookup is  *)
(* left to do; a run that left the batch driver through its exit, or       *)
(* crashed, has no file; a run with an empty mapping has no file; a run    *)
(* that ended with a non-empty mapping and no successful lookup has a file *)
(* holding only the header.                                                *)
(***************************************************************************)
C10_ReportOnceAtEnd ==
    /\ file.opens <= 1
    /\ file.exists <=> file.opens = 1
    /\ file.exists =>
          /\ pc \in {"done", "exit_save"}
          /\ KeySet = {calls[i].email : i \in 1..Len(calls)}
    /\ pc \in {"exit_batch", "crash"} => ~file.exists
    /\ (pc \in {"done", "exit_save"} /\ email_results = <<>>) => ~file.exists
    /\ (/\ pc \in {"done", "exit_save"}
        /\ email_results # <<>>
        /\ \A i \in 1..Len(calls) : calls[i].ret = None)
          => (file.exists /\ file.content = <<fieldnames>>)

C10_Witness ==
    /\ pc = "exit_save"
    /\ Len(email_results) >= 2
    /\ \A i \in 1..Len(calls) : calls[i].ret = None
    /\ file.content = <<fieldnames>>
====
